---- MODULE Spec2Model ----
(***************************************************************************)
(* ArgDestination (src/coreclr/vm/argdestination.h): the destination of    *)
(* one call argument inside a TransitionBlock register image, and the      *)
(* operations that scatter a composite value into argument registers,      *)
(* zero it, and report the managed references it holds to the collector.   *)
(*                                                                         *)
(* The register image is a byte array indexed by the offset from m_base.   *)
(* Floating argument registers lie at negative offsets, general argument   *)
(* registers at OffsetOfArgumentRegisters and above.  All multi-byte       *)
(* accesses are little-endian (every target of the file is).               *)
(***************************************************************************)
EXTENDS Integers, Sequences, FiniteSets, TLC

VARIABLES
    target,     \* build target the header is compiled for
    checked,    \* TRUE: _DEBUG build, _ASSERTE and INDEBUG are live
    m_base,     \* ArgDestination::m_base (address of the TransitionBlock)
    m_offset,   \* ArgDestination::m_offset
    desc,       \* *m_argLocDescForStructInRegs, desc.isNull when the pointer is NULL
    regs,       \* the register image: offset from m_base -> byte
    pre,        \* the register image before the last operation
    op,         \* the last operation and its arguments
    status,     \* "unconstructed"; "ok"; "assert" once an _ASSERTE has failed and
                \* "fault" once an access has trapped (execution halts)
    writes,     \* the stores the last operation made, in program order
    calls,      \* the promotion callbacks the last operation made, in program order
    ncalls,     \* number of operations run on this ArgDestination
    thread,     \* the scatter the calling thread is in the middle of, and the collector
    event       \* a dynamic event payload buffer and the cursor gc_event::Serialize moves

vars == <<target, checked, m_base, m_offset, desc, regs, pre, op, status, writes, calls, ncalls,
          thread, event>>

----------------------------------------------------------------------------
(* Bounds of the model *)

\* operations run on one ArgDestination
MaxCalls == 2
\* fields of a homogeneous floating aggregate (m_cFloatReg ranges over 1..MaxHfaFields)
MaxHfaFields == 3
\* arguments of one call of gc_event::Serialize
MaxArgs == 3

----------------------------------------------------------------------------
(* Program constants *)

CLR_SYSTEMV_MAX_EIGHTBYTES_COUNT_TO_PASS_IN_REGISTERS == 2
GC_CALL_INTERIOR == 1
\* TransitionBlock::StructInRegsOffset, the "composite lives in registers" sentinel
StructInRegsOffset == -2
\* TransitionBlock::GetOffsetOfArgumentRegisters()
OffsetOfArgumentRegisters == 16

\* <<m_idxGenReg, m_idxFloatReg>> of the descriptors tried
IdxRegs == {<<0, 1>>, <<1, 0>>}

\* bytes of the floating argument register area that the image holds: room for
\* the largest aggregate at the highest register index tried
FloatAreaBytes == (1 + MaxHfaFields) * 16
\* TransitionBlock::GetOffsetOfFloatArgumentRegisters(): the area ends at m_base
OffsetOfFloatArgumentRegisters == 0 - FloatAreaBytes
\* bytes of the general argument register area that the image holds
GenAreaBytes == (1 + CLR_SYSTEMV_MAX_EIGHTBYTES_COUNT_TO_PASS_IN_REGISTERS + 1) * 8

SystemVClassificationTypeInteger == "Integer"
SystemVClassificationTypeIntegerReference == "IntegerReference"
SystemVClassificationTypeIntegerByRef == "IntegerByRef"
SystemVClassificationTypeSSE == "SSE"

----------------------------------------------------------------------------
(* Memory *)

\* Source buffers are named by a seed; byte i of buffer s is (s + i) mod 256,
\* so that every offset of a buffer holds a different byte.  ZerosBuf names the
\* zero-initialised array of ZeroStructInRegisters.
ZerosBuf == 0
SrcSeeds == {16, 126}

Deref(buf, i) == IF buf = ZerosBuf THEN 0 ELSE (buf + i) % 256

\* n bytes of buffer buf starting at offset off
SrcBytes(buf, off, n) == [k \in 1..n |-> Deref(buf, off + k - 1)]

RECURSIVE StoreFrom(_, _, _, _)
\* image mem with bytes k..Len(bytes) of the sequence bytes stored at addr + k - 1 ..
StoreFrom(mem, addr, bytes, k) ==
    IF k > Len(bytes) THEN mem
    ELSE StoreFrom([mem EXCEPT ![addr + k - 1] = bytes[k]], addr, bytes, k + 1)

\* image mem with the byte sequence bytes stored at address addr
Store(mem, addr, bytes) == StoreFrom(mem, addr, bytes, 1)

\* addresses of the TransitionBlock at base
Addrs(base) ==
    (base + OffsetOfFloatArgumentRegisters) .. (base + OffsetOfArgumentRegisters + GenAreaBytes - 1)

\* contents of the image before any scatter: every byte 0xEE
InitImage(base) == [a \in Addrs(base) |-> 238]

\* values of m_base
Bases == {4096}

----------------------------------------------------------------------------
(* ArgLocDesc, the layout descriptor m_argLocDescForStructInRegs points to *)

EightByte(cls, size) == [cls |-> cls, size |-> size]

NoFields == [flags |-> {}, offset1st |-> 0, offset2nd |-> 0,
             sizeShift1st |-> 0, sizeShift2nd |-> 0]

NullDesc == [isNull |-> TRUE, m_idxGenReg |-> 0, m_idxFloatReg |-> 0,
             m_cGenReg |-> 0, m_cFloatReg |-> 0, m_hfaFieldSize |-> 0,
             m_eeClass |-> <<>>, m_structFields |-> NoFields]

\* sizes of an Integer eightbyte that is the last of its composite
IntSizes == {1, 4, 8}

RefClasses == {SystemVClassificationTypeIntegerReference, SystemVClassificationTypeIntegerByRef}

\* the last eightbyte of a composite may be short; a reference is always 8 bytes
\* and a floating eightbyte holds one float, two floats or a double
LastEightBytes ==
    {EightByte(SystemVClassificationTypeInteger, n) : n \in IntSizes}
    \cup {EightByte(SystemVClassificationTypeSSE, n) : n \in {4, 8}}
    \cup {EightByte(c, 8) : c \in RefClasses}

FullEightBytes == {u \in LastEightBytes : u.size = 8}

\* EEClass eightbyte tables: 1..CLR_SYSTEMV_MAX_EIGHTBYTES_COUNT_TO_PASS_IN_REGISTERS
\* units, all but the last one full
RECURSIVE EightByteTables(_)
EightByteTables(n) ==
    IF n = 1 THEN {<<u>> : u \in LastEightBytes}
    ELSE {<<f>> \o t : f \in FullEightBytes, t \in EightByteTables(n - 1)}

SysVDescs ==
    {[NullDesc EXCEPT !.isNull = FALSE, !.m_idxGenReg = x[1], !.m_idxFloatReg = x[2],
                      !.m_eeClass = t] :
        x \in IdxRegs,
        t \in UNION {EightByteTables(n) :
                        n \in 1..CLR_SYSTEMV_MAX_EIGHTBYTES_COUNT_TO_PASS_IN_REGISTERS}}

GetNumberEightBytes == Len(desc.m_eeClass)
GetEightByteSize(i) == desc.m_eeClass[i + 1].size
GetEightByteClassification(i) == desc.m_eeClass[i + 1].cls

RECURSIVE SumSizes(_, _)
\* total size of the eightbytes i .. Len(t)-1 of table t (0-based)
SumSizes(t, i) == IF i >= Len(t) THEN 0 ELSE t[i + 1].size + SumSizes(t, i + 1)

\* the size of the composite the descriptor describes
CompositeSize == SumSizes(desc.m_eeClass, 0)

----------------------------------------------------------------------------
(* Addressing *)

GetDestinationAddress == m_base + m_offset

IsStructPassedInRegs ==
    IF target = "UNIX_AMD64_ABI" THEN m_offset = StructInRegsOffset
    ELSE ~desc.isNull

GetStructFloatRegDestinationAddress ==
    m_base + (OffsetOfFloatArgumentRegisters + desc.m_idxFloatReg * 16)

\* a plausible slip: the stride of the floating registers
GetStructGenRegDestinationAddressStride16 ==
    m_base + (OffsetOfArgumentRegisters + desc.m_idxGenReg * 16)

GetStructGenRegDestinationAddress ==
    m_base + (OffsetOfArgumentRegisters + desc.m_idxGenReg * 8)

IS_ALIGNED(addr, n) == addr % n = 0

----------------------------------------------------------------------------
(* UNIX_AMD64_ABI: CopyStructToRegisters, ZeroStructInRegisters *)

\* one store of an operation: len bytes at addr, read from offset srcOff of the
\* source, made for eightbyte (or field) unit
WriteRec(unit, addr, len, srcOff) ==
    [unit |-> unit, addr |-> addr, len |-> len, srcOff |-> srcOff]

\* the outcome of an operation: the image, whether it ran to its end, its stores.
\* The status "undefined" is that of an operation that read through the null
\* m_argLocDescForStructInRegs before it stored anything.
Outcome(mem, st, log) == [mem |-> mem, status |-> st, writes |-> log]

\* What a build makes of a read through the null descriptor pointer: the access
\* traps, or it does not and the fields read as zero (no eightbytes, no fields,
\* no registers), so that the operation runs to its end and stores nothing.
Resolve(st) == IF st = "undefined" THEN {"fault", "ok"} ELSE {st}

\* the locals of the loop of CopyStructToRegisters
CopyLocals(i, src, genRegDest, floatRegDest, remainingBytes, destOffset, mem, log) ==
    [i |-> i, src |-> src, genRegDest |-> genRegDest, floatRegDest |-> floatRegDest,
     remainingBytes |-> remainingBytes, destOffset |-> destOffset, mem |-> mem, log |-> log]

\* a plausible slip: the floating cursor advances by 8, the size of the store
CopyStoreStride8(L, buf, addr, n, isFloat, eightByteSize) ==
    [L EXCEPT !.i = L.i + 1,
              !.mem = Store(L.mem, addr, SrcBytes(buf, L.src, n)),
              !.log = Append(L.log, WriteRec(L.i, addr, n, L.src)),
              !.floatRegDest = IF isFloat THEN L.floatRegDest + 8 ELSE L.floatRegDest,
              !.genRegDest = IF isFloat THEN L.genRegDest ELSE L.genRegDest + eightByteSize,
              !.src = L.src + eightByteSize,
              !.remainingBytes = L.remainingBytes - eightByteSize,
              !.destOffset = 0]

\* a plausible slip: every store is a whole register, whatever the unit's size
CopyStoreWhole(L, buf, addr, n, isFloat, eightByteSize) ==
    [L EXCEPT !.i = L.i + 1,
              !.mem = Store(L.mem, addr, SrcBytes(buf, L.src, 8)),
              !.log = Append(L.log, WriteRec(L.i, addr, 8, L.src)),
              !.floatRegDest = IF isFloat THEN L.floatRegDest + 16 ELSE L.floatRegDest,
              !.genRegDest = IF isFloat THEN L.genRegDest ELSE L.genRegDest + eightByteSize,
              !.src = L.src + eightByteSize,
              !.remainingBytes = L.remainingBytes - eightByteSize,
              !.destOffset = 0]

\* a plausible slip: a floating unit advances the general-register cursor too
CopyStoreSharedCursor(L, buf, addr, n, isFloat, eightByteSize) ==
    [L EXCEPT !.i = L.i + 1,
              !.mem = Store(L.mem, addr, SrcBytes(buf, L.src, n)),
              !.log = Append(L.log, WriteRec(L.i, addr, n, L.src)),
              !.floatRegDest = IF isFloat THEN L.floatRegDest + 16 ELSE L.floatRegDest,
              !.genRegDest = L.genRegDest + eightByteSize,
              !.src = L.src + eightByteSize,
              !.remainingBytes = L.remainingBytes - eightByteSize,
              !.destOffset = 0]

\* the store of n bytes from the source cursor to addr, and the advance of the cursors
CopyStore(L, buf, addr, n, isFloat, eightByteSize) ==
    [L EXCEPT !.i = L.i + 1,
              !.mem = Store(L.mem, addr, SrcBytes(buf, L.src, n)),
              !.log = Append(L.log, WriteRec(L.i, addr, n, L.src)),
              !.floatRegDest = IF isFloat THEN L.floatRegDest + 16 ELSE L.floatRegDest,
              !.genRegDest = IF isFloat THEN L.genRegDest ELSE L.genRegDest + eightByteSize,
              !.src = L.src + eightByteSize,
              !.remainingBytes = L.remainingBytes - eightByteSize,
              !.destOffset = 0]

RECURSIVE CopyLoop(_, _)
\* the for loop of CopyStructToRegisters and the assertion after it
CopyLoop(L, buf) ==
    IF L.i >= GetNumberEightBytes
    THEN Outcome(L.mem,
                 IF checked /\ L.remainingBytes # 0 THEN "assert" ELSE "ok",
                 L.log)
    ELSE
    LET eightByteClassification == GetEightByteClassification(L.i)
        \* Adjust the size of the first eightByte by the destOffset
        eightByteSize == GetEightByteSize(L.i) - (L.destOffset % 8)
        failed == Outcome(L.mem, "assert", L.log)
    IN  IF checked /\ ~(L.remainingBytes >= eightByteSize) THEN failed
        ELSE IF eightByteClassification = SystemVClassificationTypeSSE
        THEN IF eightByteSize = 8
             THEN CopyLoop(CopyStore(L, buf, L.floatRegDest, 8, TRUE, eightByteSize), buf)
             ELSE IF checked /\ eightByteSize # 4 THEN failed
             ELSE CopyLoop(CopyStore(L, buf, L.floatRegDest, 4, TRUE, eightByteSize), buf)
        ELSE IF eightByteSize = 8
             THEN IF checked /\ ~IS_ALIGNED(L.genRegDest, 8) THEN failed
                  ELSE CopyLoop(CopyStore(L, buf, L.genRegDest, 8, FALSE, eightByteSize), buf)
             ELSE IF checked /\ eightByteClassification # SystemVClassificationTypeInteger
                  THEN failed
                  ELSE CopyLoop(CopyStore(L, buf, L.genRegDest, eightByteSize, FALSE,
                                          eightByteSize), buf)

\* a plausible slip: the loop starts at the first eightbyte, skipped or not
CopyStructToRegistersSysVFromFirst(mem, buf, fieldBytes, destOffset) ==
    IF checked /\ ~IsStructPassedInRegs THEN Outcome(mem, "assert", <<>>)
    ELSE IF desc.isNull THEN Outcome(mem, "undefined", <<>>)
    ELSE CopyLoop(CopyLocals(0, 0,
                             GetStructGenRegDestinationAddress + destOffset,
                             GetStructFloatRegDestinationAddress,
                             fieldBytes, destOffset, mem, <<>>), buf)

\* a plausible slip: the general-register cursor does not skip destOffset bytes
CopyStructToRegistersSysVNoSkip(mem, buf, fieldBytes, destOffset) ==
    IF checked /\ ~IsStructPassedInRegs THEN Outcome(mem, "assert", <<>>)
    ELSE IF desc.isNull THEN Outcome(mem, "undefined", <<>>)
    ELSE CopyLoop(CopyLocals(destOffset \div 8, 0,
                             GetStructGenRegDestinationAddress,
                             GetStructFloatRegDestinationAddress,
                             fieldBytes, destOffset, mem, <<>>), buf)

\* CopyStructToRegisters(src, fieldBytes, destOffset) run on image mem
CopyStructToRegistersSysV(mem, buf, fieldBytes, destOffset) ==
    IF checked /\ ~IsStructPassedInRegs THEN Outcome(mem, "assert", <<>>)
    ELSE IF desc.isNull THEN Outcome(mem, "undefined", <<>>)
    ELSE CopyLoop(CopyLocals(destOffset \div 8, 0,
                             GetStructGenRegDestinationAddress + destOffset,
                             GetStructFloatRegDestinationAddress,
                             fieldBytes, destOffset, mem, <<>>), buf)

\* sizeof(zeros)
SizeofZeros == CLR_SYSTEMV_MAX_EIGHTBYTES_COUNT_TO_PASS_IN_REGISTERS * 8

\* a plausible slip: fieldBytes and destOffset passed in each other's place
ZeroStructInRegistersSysVSwapped(mem, fieldBytes) ==
    IF checked /\ ~(SizeofZeros >= fieldBytes) THEN Outcome(mem, "assert", <<>>)
    ELSE CopyStructToRegistersSysV(mem, ZerosBuf, 0, fieldBytes)

\* ZeroStructInRegisters(fieldBytes) run on image mem
ZeroStructInRegistersSysV(mem, fieldBytes) ==
    IF checked /\ ~(SizeofZeros >= fieldBytes) THEN Outcome(mem, "assert", <<>>)
    ELSE CopyStructToRegistersSysV(mem, ZerosBuf, fieldBytes, 0)

----------------------------------------------------------------------------
(* UNIX_AMD64_ABI: ReportPointersFromStructInRegisters *)

\* one promotion callback: (*fn)(addr, sc, flags), made for eightbyte unit
CallRec(unit, addr, flags) == [unit |-> unit, addr |-> addr, flags |-> flags]

\* The promotion callback.  It may relocate the object, and then rewrites the
\* reference in place through the address it was given; moves says whether it does.
Promote(mem, addr, moves) ==
    IF moves THEN Store(mem, addr, [k \in 1..8 |-> (mem[addr + k - 1] + 1) % 256])
    ELSE mem

ReportLocals(i, genRegDest, remainingBytes, mem, cbs) ==
    [i |-> i, genRegDest |-> genRegDest, remainingBytes |-> remainingBytes,
     mem |-> mem, cbs |-> cbs]

ReportOutcome(mem, st, cbs) == [mem |-> mem, status |-> st, calls |-> cbs]

\* a plausible slip: only exact references are reported
ReportsUnitExactOnly(eightByteClassification) ==
    eightByteClassification = SystemVClassificationTypeIntegerReference

\* the eightbytes the loop reports to the callback
ReportsUnit(eightByteClassification) ==
    \/ eightByteClassification = SystemVClassificationTypeIntegerReference
    \/ eightByteClassification = SystemVClassificationTypeIntegerByRef

\* a plausible slip: the flag is given to the wrong kind of reference
PromoteFlagsSwapped(eightByteClassification) ==
    IF eightByteClassification = SystemVClassificationTypeIntegerReference
    THEN GC_CALL_INTERIOR ELSE 0

\* the flags passed to the callback
PromoteFlags(eightByteClassification) ==
    IF eightByteClassification = SystemVClassificationTypeIntegerByRef
    THEN GC_CALL_INTERIOR ELSE 0

RECURSIVE ReportLoop(_, _)
\* the for loop of ReportPointersFromStructInRegisters and the assertion after it
ReportLoop(L, moves) ==
    IF L.i >= GetNumberEightBytes
    THEN ReportOutcome(L.mem,
                       IF checked /\ L.remainingBytes # 0 THEN "assert" ELSE "ok",
                       L.cbs)
    ELSE
    LET eightByteSize == GetEightByteSize(L.i)
        eightByteClassification == GetEightByteClassification(L.i)
        failed == ReportOutcome(L.mem, "assert", L.cbs)
        isRef == ReportsUnit(eightByteClassification)
        flags == PromoteFlags(eightByteClassification)
        next == [L EXCEPT !.i = L.i + 1,
                          !.remainingBytes = L.remainingBytes - eightByteSize]
    IN  IF checked /\ ~(L.remainingBytes >= eightByteSize) THEN failed
        ELSE IF eightByteClassification # SystemVClassificationTypeSSE
        THEN IF isRef
             THEN IF checked /\ ~(eightByteSize = 8 /\ IS_ALIGNED(L.genRegDest, 8))
                  THEN failed
                  ELSE ReportLoop([next EXCEPT
                                      !.mem = Promote(L.mem, L.genRegDest, moves),
                                      !.cbs = Append(L.cbs, CallRec(L.i, L.genRegDest, flags)),
                                      !.genRegDest = L.genRegDest + eightByteSize],
                                  moves)
             ELSE ReportLoop([next EXCEPT !.genRegDest = L.genRegDest + eightByteSize],
                             moves)
        ELSE ReportLoop(next, moves)

\* a plausible slip: remainingBytes starts at the size the layout gives
ReportPointersFromStructInRegistersSysVSizeFromLayout(mem, fieldBytes, moves) ==
    IF checked /\ ~IsStructPassedInRegs THEN ReportOutcome(mem, "assert", <<>>)
    ELSE IF desc.isNull THEN ReportOutcome(mem, "undefined", <<>>)
    ELSE ReportLoop(ReportLocals(0, GetStructGenRegDestinationAddress, CompositeSize,
                                 mem, <<>>), moves)

\* ReportPointersFromStructInRegisters(fn, sc, fieldBytes) run on image mem
ReportPointersFromStructInRegistersSysV(mem, fieldBytes, moves) ==
    IF checked /\ ~IsStructPassedInRegs THEN ReportOutcome(mem, "assert", <<>>)
    ELSE IF desc.isNull THEN ReportOutcome(mem, "undefined", <<>>)
    ELSE ReportLoop(ReportLocals(0, GetStructGenRegDestinationAddress, fieldBytes,
                                 mem, <<>>), moves)

----------------------------------------------------------------------------
(* TARGET_LOONGARCH64, TARGET_RISCV64: the hardware floating-point convention *)

FLOAT_REGISTER_SIZE == 8
TARGET_POINTER_SIZE == 8

OnlyOne == "OnlyOne"
BothFloat == "BothFloat"
FloatInt == "FloatInt"
IntFloat == "IntFloat"

\* info.flags & mask
HasFlag(flags, mask) == flags \cap mask # {}

\* FpStructInRegistersInfo: the shape flag, and offset and size shift of each field
FpInfo(flag, offset1st, sizeShift1st, offset2nd, sizeShift2nd) ==
    [flags |-> {flag}, offset1st |-> offset1st, offset2nd |-> offset2nd,
     sizeShift1st |-> sizeShift1st, sizeShift2nd |-> sizeShift2nd]

Shl(n) == IF n = 0 THEN 1 ELSE IF n = 1 THEN 2 ELSE IF n = 2 THEN 4 ELSE 8
Size1st(info) == Shl(info.sizeShift1st)
Size2nd(info) == Shl(info.sizeShift2nd)

\* the least multiple of a that is at least n
AlignUp(n, a) == ((n + a - 1) \div a) * a

\* a second field of size shift s2 after a first field of size shift s1 at offset 0
\* lies at its natural alignment
SecondOffset(s1, s2) == AlignUp(Shl(s1), Shl(s2))

FloatShifts == {2, 3}
IntShifts == {0, 1, 2, 3}

FpInfos ==
    {FpInfo(OnlyOne, 0, s, 0, 0) : s \in FloatShifts}
    \cup {FpInfo(BothFloat, 0, s1, SecondOffset(s1, s2), s2) : s1 \in FloatShifts, s2 \in FloatShifts}
    \cup {FpInfo(FloatInt, 0, s1, SecondOffset(s1, s2), s2) : s1 \in FloatShifts, s2 \in IntShifts}
    \cup {FpInfo(IntFloat, 0, s1, SecondOffset(s1, s2), s2) : s1 \in IntShifts, s2 \in FloatShifts}

FpDescs ==
    {[NullDesc EXCEPT !.isNull = FALSE, !.m_idxGenReg = x[1], !.m_idxFloatReg = x[2],
                      !.m_cFloatReg = IF HasFlag(info.flags, {BothFloat}) THEN 2 ELSE 1,
                      !.m_cGenReg = IF HasFlag(info.flags, {FloatInt, IntFloat}) THEN 1 ELSE 0,
                      !.m_structFields = info] :
        x \in IdxRegs, info \in FpInfos}

\* the size of the composite that info describes
FpStructSize(info) ==
    IF HasFlag(info.flags, {OnlyOne}) THEN Size1st(info)
    ELSE AlignUp(info.offset2nd + Size2nd(info),
                 IF Size1st(info) > Size2nd(info) THEN Size1st(info) ELSE Size2nd(info))

RECURSIVE BitOr(_, _)
\* x | y
BitOr(x, y) ==
    IF x = 0 THEN y
    ELSE IF y = 0 THEN x
    ELSE (IF x % 2 = 1 \/ y % 2 = 1 THEN 1 ELSE 0) + 2 * BitOr(x \div 2, y \div 2)

\* a | b of two little-endian byte sequences of one length
OrBytes(a, b) == [k \in 1..Len(a) |-> BitOr(a[k], b[k])]

\* conversion of a signed little-endian integer to n bytes
SignExtend(bytes, n) ==
    [k \in 1..n |-> IF k <= Len(bytes) THEN bytes[k]
                    ELSE IF bytes[Len(bytes)] >= 128 THEN 255 ELSE 0]

\* conversion of an unsigned little-endian integer to n bytes
ZeroExtend(bytes, n) == [k \in 1..n |-> IF k <= Len(bytes) THEN bytes[k] ELSE 0]

\* 0xffffffff00000000L
NanBoxRiscV == <<0, 0, 0, 0, 255, 255, 255, 255>>

\* static const INT64 NanBox
NanBox == IF target = "TARGET_RISCV64" THEN NanBoxRiscV ELSE <<0, 0, 0, 0, 0, 0, 0, 0>>

\* a plausible slip: the float is read as UINT32, as CopySingleFloatToRegister reads it
FloatFieldValueUnsigned(buf, off, sizeShift) ==
    IF sizeShift = 3 THEN SrcBytes(buf, off, 8)
    ELSE OrBytes(NanBox, ZeroExtend(SrcBytes(buf, off, 4), 8))

\* (SizeShift == 3) ? *(INT64*)field : NanBox | *(INT32*)field
FloatFieldValue(buf, off, sizeShift) ==
    IF sizeShift = 3 THEN SrcBytes(buf, off, 8)
    ELSE OrBytes(NanBox, SignExtend(SrcBytes(buf, off, 4), 8))

\* 0xDadAddedC0ffee00l
TrashBytes == <<0, 238, 255, 192, 237, 221, 218, 218>>

\* a store of bytes that do not come from the source
NoSource == 0 - 1

\* a plausible slip: both floating fields go to the first floating register
FpFloatStoresNoAdvance(mem, log, buf, info, floatReg) ==
    LET first == HasFlag(info.flags, {OnlyOne, BothFloat, FloatInt})
        second == HasFlag(info.flags, {BothFloat, IntFloat})
        mem1 == IF first
                THEN Store(mem, floatReg, FloatFieldValue(buf, info.offset1st, info.sizeShift1st))
                ELSE mem
        log1 == IF first
                THEN Append(log, WriteRec(0, floatReg, FLOAT_REGISTER_SIZE, info.offset1st))
                ELSE log
    IN  IF second
        THEN Outcome(Store(mem1, floatReg,
                           FloatFieldValue(buf, info.offset2nd, info.sizeShift2nd)),
                     "ok",
                     Append(log1, WriteRec(1, floatReg, FLOAT_REGISTER_SIZE, info.offset2nd)))
        ELSE Outcome(mem1, "ok", log1)

\* the stores of the floating fields: "copy first floating field", "copy second
\* floating field"
FpFloatStores(mem, log, buf, info, floatReg) ==
    LET first == HasFlag(info.flags, {OnlyOne, BothFloat, FloatInt})
        second == HasFlag(info.flags, {BothFloat, IntFloat})
        mem1 == IF first
                THEN Store(mem, floatReg, FloatFieldValue(buf, info.offset1st, info.sizeShift1st))
                ELSE mem
        log1 == IF first
                THEN Append(log, WriteRec(0, floatReg, FLOAT_REGISTER_SIZE, info.offset1st))
                ELSE log
        floatReg1 == IF first THEN floatReg + FLOAT_REGISTER_SIZE ELSE floatReg
    IN  IF second
        THEN Outcome(Store(mem1, floatReg1,
                           FloatFieldValue(buf, info.offset2nd, info.sizeShift2nd)),
                     "ok",
                     Append(log1, WriteRec(1, floatReg1, FLOAT_REGISTER_SIZE, info.offset2nd)))
        ELSE Outcome(mem1, "ok", log1)

\* the store of the integer field: "copy integer field"
FpIntStore(mem, log, buf, info) ==
    IF ~HasFlag(info.flags, {FloatInt, IntFloat}) THEN Outcome(mem, "ok", log)
    ELSE
    LET intReg == m_base + (OffsetOfArgumentRegisters + desc.m_idxGenReg * TARGET_POINTER_SIZE)
        trashed == target = "TARGET_RISCV64" /\ checked
        mem1 == IF trashed THEN Store(mem, intReg, TrashBytes) ELSE mem
        log1 == IF trashed THEN Append(log, WriteRec(NoSource, intReg, 8, NoSource)) ELSE log
        isFirst == HasFlag(info.flags, {IntFloat})
        offset == IF isFirst THEN info.offset1st ELSE info.offset2nd
        sizeShift == IF isFirst THEN info.sizeShift1st ELSE info.sizeShift2nd
        unit == IF isFirst THEN 0 ELSE 1
    IN  IF sizeShift \in {0, 1, 2, 3}
        THEN Outcome(Store(mem1, intReg, SrcBytes(buf, offset, Shl(sizeShift))), "ok",
                     Append(log1, WriteRec(unit, intReg, Shl(sizeShift), offset)))
        ELSE Outcome(mem1, IF checked THEN "assert" ELSE "ok", log1)

\* CopyStructToRegisters(src, fieldBytes, destOffset) run on image mem
CopyStructToRegistersFpStruct(mem, buf, fieldBytes, destOffset) ==
    IF ~IsStructPassedInRegs
    THEN Outcome(mem, IF checked THEN "assert" ELSE "undefined", <<>>)
    ELSE
    LET info == desc.m_structFields
        asserted ==
            /\ destOffset = 0
            /\ fieldBytes <= 16
            /\ desc.m_cFloatReg = (IF HasFlag(info.flags, {BothFloat}) THEN 2 ELSE 1)
            /\ desc.m_cGenReg = (IF HasFlag(info.flags, {FloatInt, IntFloat}) THEN 1 ELSE 0)
            /\ info.offset2nd + Size2nd(info) <= fieldBytes
        floatRegOffset == OffsetOfFloatArgumentRegisters
                          + desc.m_idxFloatReg * FLOAT_REGISTER_SIZE
        floats == FpFloatStores(mem, <<>>, buf, info, m_base + floatRegOffset)
    IN  IF checked /\ ~asserted THEN Outcome(mem, "assert", <<>>)
        ELSE FpIntStore(floats.mem, floats.writes, buf, info)

\* TransitionBlock::IsFloatArgumentRegisterOffset: the floating argument registers
\* are the part of the TransitionBlock below m_base
IsFloatArgumentRegisterOffset(offset) == offset < 0

\* a plausible slip: the narrow store on both paths
CopySingleFloatToRegisterNarrow(mem, buf) ==
    Outcome(Store(mem, GetDestinationAddress, SrcBytes(buf, 0, 4)), "ok",
            <<WriteRec(0, GetDestinationAddress, 4, 0)>>)

\* CopySingleFloatToRegister(src) run on image mem
CopySingleFloatToRegisterRiscV(mem, buf) ==
    LET dest == GetDestinationAddress
        value == SrcBytes(buf, 0, 4)
    IN  IF IsFloatArgumentRegisterOffset(m_offset)
        THEN Outcome(Store(mem, dest, OrBytes(NanBoxRiscV, ZeroExtend(value, 8))), "ok",
                     <<WriteRec(0, dest, 8, 0)>>)
        ELSE Outcome(Store(mem, dest, value), "ok", <<WriteRec(0, dest, 4, 0)>>)

----------------------------------------------------------------------------
(* TARGET_ARM64: homogeneous floating aggregates *)

HfaFieldSizes == {4, 8, 16}

\* an aggregate of n fields of one size in floating registers x[2] ..
HfaDescs ==
    {[NullDesc EXCEPT !.isNull = FALSE, !.m_idxFloatReg = x[2], !.m_cFloatReg = n,
                      !.m_hfaFieldSize = sz] :
        x \in IdxRegs, n \in 1..MaxHfaFields, sz \in HfaFieldSizes}

IsHFA == ~desc.isNull

HfaLocals(i, src, dest, mem, log) ==
    [i |-> i, src |-> src, dest |-> dest, mem |-> mem, log |-> log]

\* a plausible slip: the condition of the second store inverted
HfaUpperHalfInverted(buf, src, hfaFieldSize) ==
    IF hfaFieldSize = 16 THEN <<0, 0, 0, 0, 0, 0, 0, 0>> ELSE SrcBytes(buf, src + 8, 8)

\* (hfaFieldSize == 16) ? *((UINT64*)src + 1) : 0
HfaUpperHalf(buf, src, hfaFieldSize) ==
    IF hfaFieldSize = 16 THEN SrcBytes(buf, src + 8, 8) ELSE <<0, 0, 0, 0, 0, 0, 0, 0>>

\* a plausible slip: every field is read as UINT64
HfaLowerHalfWide(buf, src, hfaFieldSize) == SrcBytes(buf, src, 8)

\* a plausible slip: every field is read as UINT32
HfaLowerHalfNarrow(buf, src, hfaFieldSize) == ZeroExtend(SrcBytes(buf, src, 4), 8)

\* (hfaFieldSize == 4) ? *((UINT32*)src) : *((UINT64*)src)
HfaLowerHalf(buf, src, hfaFieldSize) ==
    IF hfaFieldSize = 4 THEN ZeroExtend(SrcBytes(buf, src, 4), 8) ELSE SrcBytes(buf, src, 8)

RECURSIVE HfaLoop(_, _)
\* the for loop of CopyHFAStructToRegister
HfaLoop(L, buf) ==
    IF L.i >= desc.m_cFloatReg THEN Outcome(L.mem, "ok", L.log)
    ELSE
    LET hfaFieldSize == desc.m_hfaFieldSize
        mem1 == Store(L.mem, L.dest, HfaLowerHalf(buf, L.src, hfaFieldSize))
        mem2 == Store(mem1, L.dest + 8, HfaUpperHalf(buf, L.src, hfaFieldSize))
        log2 == L.log \o <<WriteRec(L.i, L.dest, 8, L.src),
                           WriteRec(L.i, L.dest + 8, 8,
                                    IF hfaFieldSize = 16 THEN L.src + 8 ELSE NoSource)>>
    IN  HfaLoop(HfaLocals(L.i + 1, L.src + hfaFieldSize, L.dest + 16, mem2, log2), buf)

\* CopyHFAStructToRegister(src, fieldBytes) run on image mem
CopyHFAStructToRegisterArm64(mem, buf, fieldBytes) ==
    IF desc.isNull THEN Outcome(mem, "undefined", <<>>)
    ELSE HfaLoop(HfaLocals(0, 0, GetDestinationAddress, mem, <<>>), buf)

----------------------------------------------------------------------------
(* The state machine *)

OpRec(name, buf, fieldBytes, destOffset, moves) ==
    [name |-> name, buf |-> buf, fieldBytes |-> fieldBytes,
     destOffset |-> destOffset, moves |-> moves]

\* destination offsets tried: whole eightbytes and offsets in the middle of one
DestOffsets == {0, 2, 4, 8, 12}

\* Sizes a caller may declare for a scatter that consumes n bytes.  fieldBytes is
\* read by _ASSERTE and INDEBUG code only, so an optimized build behaves the same
\* for every value of it and one value stands for all.
FieldBytesAround(n) == IF checked THEN {n - 9, n - 1, n, n + 1} ELSE {n}

\* the calling thread is between operations and no collection is under way
NoScatter == [pending |-> <<>>, gc |-> "idle", waited |-> FALSE]

\* no payload buffer
NoEvent == [bigEndian |-> FALSE, args |-> <<>>, mem |-> <<>>, before |-> <<>>,
            start |-> 0, buf |-> 0, size |-> 0]

Running == status = "ok" /\ ncalls < MaxCalls

\* the size of the value the caller scatters: that of the composite the descriptor
\* describes, of a pointer-sized value when there is no descriptor
DeclaredSize == IF desc.isNull THEN 8 ELSE CompositeSize

InitSysV ==
    /\ target = "UNIX_AMD64_ABI"
    /\ checked \in BOOLEAN
    /\ m_base \in Bases
    /\ m_offset = StructInRegsOffset
    /\ desc \in SysVDescs
    /\ regs = InitImage(m_base)
    /\ pre = regs
    /\ op = OpRec("ArgDestination", 0, 0, 0, FALSE)
    /\ status = "ok"
    /\ writes = <<>>
    /\ calls = <<>>
    /\ ncalls = 0
    /\ thread = NoScatter
    /\ event = NoEvent

CopyStructToRegisters ==
    /\ Running
    /\ target = "UNIX_AMD64_ABI"
    /\ \E buf \in SrcSeeds, destOffset \in DestOffsets :
         /\ destOffset < DeclaredSize
         /\ \E fieldBytes \in FieldBytesAround(DeclaredSize - destOffset) :
              LET r == CopyStructToRegistersSysV(regs, buf, fieldBytes, destOffset)
              IN  /\ op' = OpRec("CopyStructToRegisters", buf, fieldBytes, destOffset, FALSE)
                  /\ regs' = r.mem
                  /\ status' \in Resolve(r.status)
                  /\ writes' = r.writes
    /\ pre' = regs
    /\ calls' = <<>>
    /\ ncalls' = ncalls + 1
    /\ UNCHANGED <<target, checked, m_base, m_offset, desc, thread, event>>

ZeroStructInRegisters ==
    /\ Running
    /\ target = "UNIX_AMD64_ABI"
    /\ \E fieldBytes \in FieldBytesAround(DeclaredSize) :
         LET r == ZeroStructInRegistersSysV(regs, fieldBytes)
         IN  /\ op' = OpRec("ZeroStructInRegisters", ZerosBuf, fieldBytes, 0, FALSE)
             /\ regs' = r.mem
             /\ status' \in Resolve(r.status)
             /\ writes' = r.writes
    /\ pre' = regs
    /\ calls' = <<>>
    /\ ncalls' = ncalls + 1
    /\ UNCHANGED <<target, checked, m_base, m_offset, desc, thread, event>>

ReportPointersFromStructInRegisters ==
    /\ Running
    /\ target = "UNIX_AMD64_ABI"
    /\ \E fieldBytes \in FieldBytesAround(DeclaredSize), moves \in BOOLEAN :
         LET r == ReportPointersFromStructInRegistersSysV(regs, fieldBytes, moves)
         IN  /\ op' = OpRec("ReportPointersFromStructInRegisters", 0, fieldBytes, 0, moves)
             /\ regs' = r.mem
             /\ status' \in Resolve(r.status)
             /\ calls' = r.calls
    /\ pre' = regs
    /\ writes' = <<>>
    /\ ncalls' = ncalls + 1
    /\ UNCHANGED <<target, checked, m_base, m_offset, desc, thread, event>>

\* offsets of a floating argument register and of a general argument register,
\* the destinations of an argument that is not a composite in registers
SimpleOffsets == {OffsetOfFloatArgumentRegisters + 8, OffsetOfArgumentRegisters + 8}

InitFpStruct ==
    /\ target \in {"TARGET_LOONGARCH64", "TARGET_RISCV64"}
    /\ checked \in BOOLEAN
    /\ m_base \in Bases
    /\ \/ m_offset = StructInRegsOffset /\ desc \in FpDescs
       \/ m_offset \in SimpleOffsets /\ desc = NullDesc
    /\ regs = InitImage(m_base)
    /\ pre = regs
    /\ op = OpRec("ArgDestination", 0, 0, 0, FALSE)
    /\ status = "ok"
    /\ writes = <<>>
    /\ calls = <<>>
    /\ ncalls = 0
    /\ thread = NoScatter
    /\ event = NoEvent

CopyStructToRegistersFp ==
    /\ Running
    /\ target \in {"TARGET_LOONGARCH64", "TARGET_RISCV64"}
    /\ \E buf \in SrcSeeds,
          fieldBytes \in FieldBytesAround(IF desc.isNull THEN 8
                                          ELSE FpStructSize(desc.m_structFields)) :
         LET r == CopyStructToRegistersFpStruct(regs, buf, fieldBytes, 0)
         IN  /\ op' = OpRec("CopyStructToRegisters", buf, fieldBytes, 0, FALSE)
             /\ regs' = r.mem
             /\ status' \in Resolve(r.status)
             /\ writes' = r.writes
    /\ pre' = regs
    /\ calls' = <<>>
    /\ ncalls' = ncalls + 1
    /\ UNCHANGED <<target, checked, m_base, m_offset, desc, thread, event>>

\* called for an argument that is a single float, not a composite
CopySingleFloatToRegister ==
    /\ Running
    /\ target = "TARGET_RISCV64"
    /\ desc.isNull
    /\ \E buf \in SrcSeeds :
         LET r == CopySingleFloatToRegisterRiscV(regs, buf)
         IN  /\ op' = OpRec("CopySingleFloatToRegister", buf, 4, 0, FALSE)
             /\ regs' = r.mem
             /\ status' \in Resolve(r.status)
             /\ writes' = r.writes
    /\ pre' = regs
    /\ calls' = <<>>
    /\ ncalls' = ncalls + 1
    /\ UNCHANGED <<target, checked, m_base, m_offset, desc, thread, event>>

NextFpStruct ==
    \/ CopyStructToRegistersFp
    \/ CopySingleFloatToRegister

InitHfa ==
    /\ target = "TARGET_ARM64"
    /\ checked \in BOOLEAN
    /\ m_base \in Bases
    /\ desc \in HfaDescs
    /\ m_offset = OffsetOfFloatArgumentRegisters + desc.m_idxFloatReg * 16
    /\ regs = InitImage(m_base)
    /\ pre = regs
    /\ op = OpRec("ArgDestination", 0, 0, 0, FALSE)
    /\ status = "ok"
    /\ writes = <<>>
    /\ calls = <<>>
    /\ ncalls = 0
    /\ thread = NoScatter
    /\ event = NoEvent

\* the fieldBytes argument is not read
CopyHFAStructToRegister ==
    /\ Running
    /\ target = "TARGET_ARM64"
    /\ \E buf \in SrcSeeds, delta \in {0 - 1, 0, 1} :
         LET fieldBytes == desc.m_cFloatReg * desc.m_hfaFieldSize + delta
             r == CopyHFAStructToRegisterArm64(regs, buf, fieldBytes)
         IN  /\ op' = OpRec("CopyHFAStructToRegister", buf, fieldBytes, 0, FALSE)
             /\ regs' = r.mem
             /\ status' \in Resolve(r.status)
             /\ writes' = r.writes
    /\ pre' = regs
    /\ calls' = <<>>
    /\ ncalls' = ncalls + 1
    /\ UNCHANGED <<target, checked, m_base, m_offset, desc, thread, event>>

NextSysV ==
    \/ CopyStructToRegisters
    \/ ZeroStructInRegisters
    \/ ReportPointersFromStructInRegisters

NextHfa == CopyHFAStructToRegister

Init == InitSysV \/ InitFpStruct \/ InitHfa

Next == NextSysV \/ NextFpStruct \/ NextHfa

----------------------------------------------------------------------------
(* Construction: the constructor and the operations on whatever it accepts *)

\* the build targets: the four the header names and one of its #else branch
Targets == {"UNIX_AMD64_ABI", "TARGET_ARM64", "TARGET_LOONGARCH64", "TARGET_RISCV64",
            "TARGET_X86"}

\* a plausible slip: the constructor asserts nothing
ConstructorAssertionNone(offset, argLocDescForStructInRegs) == TRUE

\* the condition the constructor asserts
ConstructorAssertion(offset, argLocDescForStructInRegs) ==
    IF target = "UNIX_AMD64_ABI"
    THEN (~argLocDescForStructInRegs.isNull) \/ (offset # StructInRegsOffset)
    ELSE IF target \in {"TARGET_ARM64", "TARGET_LOONGARCH64", "TARGET_RISCV64"}
    THEN TRUE
    ELSE argLocDescForStructInRegs.isNull

\* descriptors passed to the constructor
CtorSysVDescs ==
    {d \in SysVDescs :
        /\ d.m_idxGenReg = 0
        /\ d.m_eeClass \in {<<EightByte(SystemVClassificationTypeSSE, 8)>>,
                             <<EightByte(SystemVClassificationTypeInteger, 8),
                               EightByte(SystemVClassificationTypeIntegerReference, 8)>>}}
CtorFpDescs ==
    {d \in FpDescs : d.m_idxGenReg = 0 /\ d.m_structFields.sizeShift1st = 2
                                       /\ d.m_structFields.sizeShift2nd \in {0, 2}}
CtorHfaDescs == {d \in HfaDescs : d.m_idxFloatReg = 0 /\ d.m_cFloatReg = 2}

\* <<offset, argLocDescForStructInRegs>> passed to the constructor.  An aggregate
\* of TARGET_ARM64 comes with the offset of its first floating register.
CtorArgs ==
    CASE target = "UNIX_AMD64_ABI" ->
            {StructInRegsOffset, OffsetOfArgumentRegisters + 8}
               \X ({NullDesc} \cup CtorSysVDescs)
      [] target = "TARGET_ARM64" ->
            {<<OffsetOfFloatArgumentRegisters + d.m_idxFloatReg * 16, d>> : d \in CtorHfaDescs}
               \cup (SimpleOffsets \X {NullDesc})
      [] target \in {"TARGET_LOONGARCH64", "TARGET_RISCV64"} ->
            ({StructInRegsOffset} \cup SimpleOffsets) \X ({NullDesc} \cup CtorFpDescs)
      [] OTHER ->
            SimpleOffsets \X ({NullDesc} \cup CtorSysVDescs)

InitCtor ==
    /\ target \in Targets
    /\ checked \in BOOLEAN
    /\ m_base \in Bases
    /\ m_offset = 0
    /\ desc = NullDesc
    /\ regs = InitImage(m_base)
    /\ pre = regs
    /\ op = OpRec("none", 0, 0, 0, FALSE)
    /\ status = "unconstructed"
    /\ writes = <<>>
    /\ calls = <<>>
    /\ ncalls = 0
    /\ thread = NoScatter
    /\ event = NoEvent

\* ArgDestination(base, offset, argLocDescForStructInRegs)
ArgDestination ==
    /\ status = "unconstructed"
    /\ \E a \in CtorArgs :
         /\ m_offset' = a[1]
         /\ desc' = a[2]
         /\ status' = IF checked /\ ~ConstructorAssertion(a[1], a[2]) THEN "assert" ELSE "ok"
    /\ op' = OpRec("ArgDestination", 0, 0, 0, FALSE)
    /\ UNCHANGED <<target, checked, m_base, regs, pre, writes, calls, ncalls, thread, event>>

\* _ASSERTE(IsStructPassedInRegs()) and the read of m_idxGenReg or m_idxFloatReg
\* in GetStructGenRegDestinationAddress and GetStructFloatRegDestinationAddress
GetStructRegDestinationAddressStatus ==
    IF checked /\ ~IsStructPassedInRegs THEN "assert"
    ELSE IF desc.isNull THEN "undefined"
    ELSE "ok"

\* a call of GetStructGenRegDestinationAddress or, where the target has it, of
\* GetStructFloatRegDestinationAddress
GetStructRegDestinationAddress ==
    /\ Running
    /\ target \in {"UNIX_AMD64_ABI", "TARGET_LOONGARCH64", "TARGET_RISCV64"}
    /\ \E name \in {"GetStructGenRegDestinationAddress"}
                    \cup (IF target = "UNIX_AMD64_ABI"
                          THEN {"GetStructFloatRegDestinationAddress"} ELSE {}) :
         op' = OpRec(name, 0, 0, 0, FALSE)
    /\ status' \in Resolve(GetStructRegDestinationAddressStatus)
    /\ pre' = regs
    /\ writes' = <<>>
    /\ calls' = <<>>
    /\ ncalls' = ncalls + 1
    /\ UNCHANGED <<target, checked, m_base, m_offset, desc, regs, thread, event>>

NextCtor ==
    \/ ArgDestination
    \/ GetStructRegDestinationAddress
    \/ NextSysV
    \/ NextFpStruct
    \/ NextHfa

\* an ArgDestination of a UNIX_AMD64_ABI build
SpecSysV == InitSysV /\ [][NextSysV]_vars

\* an ArgDestination of a TARGET_LOONGARCH64 or TARGET_RISCV64 build
SpecFpStruct == InitFpStruct /\ [][NextFpStruct]_vars

\* an ArgDestination of a TARGET_ARM64 build
SpecHfa == InitHfa /\ [][NextHfa]_vars

\* an ArgDestination of any build
Spec == Init /\ [][Next]_vars

\* an ArgDestination from its construction on, of any build and any arguments
SpecCtor == InitCtor /\ [][NextCtor]_vars

----------------------------------------------------------------------------
(* gc_event (src/coreclr/gc/gcevent_serializers.h): serialization of the      *)
(* arguments of a dynamic event into a payload buffer.  A value is the        *)
(* sequence of its bytes, least significant first.                            *)

EventTypes == {"uint8_t", "uint16_t", "uint32_t", "uint64_t", "float"}

\* sizeof(T)
Sizeof(type) ==
    CASE type = "uint8_t" -> 1
      [] type = "uint16_t" -> 2
      [] type = "uint32_t" -> 4
      [] type = "uint64_t" -> 8
      [] type = "float" -> 4

EventArg(type, value) == [type |-> type, value |-> value]

Reverse(bytes) == [k \in 1..Len(bytes) |-> bytes[Len(bytes) + 1 - k]]

\* ByteSwap16, ByteSwap32, ByteSwap64
ByteSwap(value) == Reverse(value)

\* the bytes of an object in memory, lowest address first
ObjectRepresentation(value, bigEndian) == IF bigEndian THEN Reverse(value) ELSE value

\* the buffer and *buffer
SerializeState(mem, buf, bigEndian) == [mem |-> mem, buf |-> buf, bigEndian |-> bigEndian]

\* memcpy(*buffer, &object, sizeof(T))
Memcpy(st, object) == Store(st.mem, st.buf, ObjectRepresentation(object, st.bigEndian))

\* a plausible slip: the specialization for uint8_t does not move *buffer
TraitsSerializeNoAdvance(arg, st) ==
    IF arg.type = "uint8_t"
    THEN [st EXCEPT !.mem = Store(st.mem, st.buf, arg.value)]
    ELSE IF arg.type = "float"
    THEN [st EXCEPT !.mem = Memcpy(st, arg.value), !.buf = st.buf + Sizeof("float")]
    ELSE [st EXCEPT !.mem = Memcpy(st, IF st.bigEndian THEN ByteSwap(arg.value)
                                                       ELSE arg.value),
                    !.buf = st.buf + Sizeof(arg.type)]

\* EventSerializationTraits<T>::Serialize(value, buffer)
TraitsSerialize(arg, st) ==
    IF arg.type = "uint8_t"
    THEN [st EXCEPT !.mem = Store(st.mem, st.buf, arg.value),
                    !.buf = st.buf + Sizeof("uint8_t")]
    ELSE IF arg.type = "float"
    THEN [st EXCEPT !.mem = Memcpy(st, arg.value), !.buf = st.buf + Sizeof("float")]
    ELSE [st EXCEPT !.mem = Memcpy(st, IF st.bigEndian THEN ByteSwap(arg.value)
                                                       ELSE arg.value),
                    !.buf = st.buf + Sizeof(arg.type)]

\* EventSerializationTraits<T>::SerializedSize(value)
TraitsSerializedSize(arg) == Sizeof(arg.type)

RECURSIVE SerializedSize(_)
\* gc_event::SerializedSize(head, tail...)
SerializedSize(args) ==
    IF Len(args) = 1 THEN TraitsSerializedSize(Head(args))
    ELSE TraitsSerializedSize(Head(args)) + SerializedSize(Tail(args))

RECURSIVE Serialize(_, _)
\* gc_event::Serialize(buf, head, tail...)
Serialize(st, args) ==
    IF Len(args) = 1 THEN TraitsSerialize(Head(args), st)
    ELSE Serialize(TraitsSerialize(Head(args), st), Tail(args))

\* the value of the argument at position pos: every byte of a list differs
ArgValue(type, pos) == [k \in 1..Sizeof(type) |-> 16 * pos + k]

\* argument lists of 1..MaxArgs serializable values
ArgLists ==
    UNION {{[j \in 1..n |-> EventArg(types[j], ArgValue(types[j], j))] :
               types \in [1..n -> EventTypes]} : n \in 1..MaxArgs}

\* initial values of *buf
Starts == {0, 3}

\* the size of the payload buffer: the caller makes it large enough
PayloadBytes == 3 + 8 * (MaxArgs + MaxCalls)

InitSerialize ==
    /\ target = "TARGET_X86"
    /\ checked = FALSE
    /\ m_base \in Bases
    /\ m_offset = 0
    /\ desc = NullDesc
    /\ regs = InitImage(m_base)
    /\ pre = regs
    /\ op = OpRec("none", 0, 0, 0, FALSE)
    /\ status = "unconstructed"
    /\ writes = <<>>
    /\ calls = <<>>
    /\ ncalls = 0
    /\ thread = NoScatter
    /\ \E bigEndian \in BOOLEAN, start \in Starts :
         event = [bigEndian |-> bigEndian, args |-> <<>>,
                  mem |-> [a \in 0..(PayloadBytes - 1) |-> 238],
                  before |-> [a \in 0..(PayloadBytes - 1) |-> 238],
                  start |-> start, buf |-> start, size |-> 0]

\* the serialization of args at the cursor of the event
Serialized(args, st) ==
    [event EXCEPT !.args = args, !.before = event.mem, !.start = event.buf,
                  !.mem = st.mem, !.buf = st.buf, !.size = SerializedSize(args)]

\* gc_event::Serialize(&buf, args...) into a buffer the caller has made with
\* gc_event::SerializedSize(args...)
SerializeEvent ==
    /\ event.mem # <<>>
    /\ event.args = <<>>
    /\ ncalls < MaxCalls
    /\ \E args \in ArgLists :
         event' = Serialized(args, Serialize(SerializeState(event.mem, event.buf,
                                                            event.bigEndian), args))
    /\ ncalls' = ncalls + 1
    /\ UNCHANGED <<target, checked, m_base, m_offset, desc, regs, pre, op, status, writes,
                   calls, thread>>

\* EventSerializationTraits<T>::Serialize(value, &buf), one more value appended
SerializeValue ==
    /\ event.mem # <<>>
    /\ ncalls < MaxCalls
    /\ \E type \in EventTypes :
         LET arg == EventArg(type, ArgValue(type, ncalls))
         IN  event' = Serialized(<<arg>>,
                                 TraitsSerialize(arg, SerializeState(event.mem, event.buf,
                                                                     event.bigEndian)))
    /\ ncalls' = ncalls + 1
    /\ UNCHANGED <<target, checked, m_base, m_offset, desc, regs, pre, op, status, writes,
                   calls, thread>>

NextSerialize ==
    \/ SerializeEvent
    \/ SerializeValue

\* a payload buffer and the calls that fill it
SpecSerialize == InitSerialize /\ [][NextSerialize]_vars

----------------------------------------------------------------------------
(* The layout an eightbyte table assigns, as the claims state it *)

UnitClass(i) == desc.m_eeClass[i + 1].cls
UnitSize(i) == desc.m_eeClass[i + 1].size
Units == 0 .. (Len(desc.m_eeClass) - 1)
IsRefUnit(i) == UnitClass(i) \in {"IntegerReference", "IntegerByRef"}
IsSseUnit(i) == UnitClass(i) = "SSE"

RECURSIVE SizeBefore(_)
\* the sum of the sizes of units 0..i-1
SizeBefore(i) == IF i = 0 THEN 0 ELSE SizeBefore(i - 1) + UnitSize(i - 1)

RECURSIVE NonSseSizeBefore(_)
\* the sum of the sizes of the non-SSE units among 0..i-1
NonSseSizeBefore(i) ==
    IF i = 0 THEN 0
    ELSE NonSseSizeBefore(i - 1) + (IF IsSseUnit(i - 1) THEN 0 ELSE UnitSize(i - 1))

\* the number of SSE units among 0..i-1
SseUnitsBefore(i) == Cardinality({j \in Units : j < i /\ IsSseUnit(j)})

\* where a full scatter places unit i
UnitAddress(i) ==
    IF IsSseUnit(i)
    THEN m_base + OffsetOfFloatArgumentRegisters
         + (desc.m_idxFloatReg + SseUnitsBefore(i)) * 16
    ELSE m_base + OffsetOfArgumentRegisters + desc.m_idxGenReg * 8 + NonSseSizeBefore(i)

\* the unit that holds byte o of the composite, and where a full scatter places the byte
UnitOfByte(o) == CHOOSE i \in Units : SizeBefore(i) <= o /\ o < SizeBefore(i) + UnitSize(i)
ByteAddress(o) == UnitAddress(UnitOfByte(o)) + (o - SizeBefore(UnitOfByte(o)))
CompositeBytes == 0 .. (CompositeSize - 1)

RefUnits == {i \in Units : IsRefUnit(i)}

IsReport == op.name = "ReportPointersFromStructInRegisters"
IsCopy == op.name = "CopyStructToRegisters"
IsZero == op.name = "ZeroStructInRegisters"

----------------------------------------------------------------------------
(* Root reporting *)

\* C1: ReportPointersFromStructInRegisters, run on a layout whose unit sizes sum
\* to fieldBytes, completes and invokes the callback exactly once per reference
\* unit (IntegerReference or IntegerByRef), never for another unit, in strictly
\* ascending unit and address order.
ReportVisitsEachReferenceOnce ==
    (IsReport /\ op.fieldBytes = CompositeSize) =>
        /\ status = "ok"
        /\ Len(calls) = Cardinality(RefUnits)
        /\ {calls[k].unit : k \in 1..Len(calls)} = RefUnits
        /\ \A k \in 1..(Len(calls) - 1) :
              /\ calls[k].unit < calls[k + 1].unit
              /\ calls[k].addr < calls[k + 1].addr

\* a report over one reference unit and one other unit
ReportMixedWitness ==
    /\ IsReport /\ op.fieldBytes = CompositeSize
    /\ Cardinality(RefUnits) = 1 /\ Len(desc.m_eeClass) = 2 /\ Len(calls) = 1

\* C2: the flags of a callback contain GC_CALL_INTERIOR iff the unit is
\* IntegerByRef and are 0 for IntegerReference; the composite {Integer,
\* IntegerReference} of 16 bytes gets exactly one callback, for the second unit,
\* with flags 0.
ReportFlagsInteriorIffByRef ==
    IsReport =>
        /\ \A k \in 1..Len(calls) :
              /\ ((calls[k].flags \div GC_CALL_INTERIOR) % 2 = 1)
                    <=> (UnitClass(calls[k].unit) = "IntegerByRef")
              /\ (UnitClass(calls[k].unit) = "IntegerReference") => calls[k].flags = 0
        /\ (/\ desc.m_eeClass = <<EightByte("Integer", 8), EightByte("IntegerReference", 8)>>
            /\ op.fieldBytes = 16)
              => (Len(calls) = 1 /\ calls[1].unit = 1 /\ calls[1].flags = 0)

\* the report over {Integer, IntegerReference}, and one over an IntegerByRef unit
ReportScenarioBWitness ==
    /\ IsReport /\ op.fieldBytes = 16 /\ Len(calls) = 1
    /\ desc.m_eeClass = <<EightByte("Integer", 8), EightByte("IntegerReference", 8)>>

\* C3: the address given to the callback for a reference unit is m_base + the
\* offset of the argument registers + m_idxGenReg*8 + the sizes of the earlier
\* non-SSE units; the report itself stores nothing, so the image changes only in
\* the 8 bytes a relocating callback rewrites and not at all when the callback
\* writes nothing.
ReportInPlace ==
    IsReport =>
        /\ \A k \in 1..Len(calls) :
              calls[k].addr = m_base + OffsetOfArgumentRegisters + desc.m_idxGenReg * 8
                              + NonSseSizeBefore(calls[k].unit)
        /\ ~op.moves => regs = pre
        /\ \A a \in DOMAIN regs :
              regs[a] # pre[a] =>
                 \E k \in 1..Len(calls) : calls[k].addr <= a /\ a < calls[k].addr + 8

\* a report after a scatter, with a callback that writes nothing, of a reference
\* unit that follows an SSE unit and of one at a nonzero register index
ReportInPlaceWitness ==
    /\ IsReport /\ ~op.moves /\ pre # InitImage(m_base)
    /\ Len(calls) = 1 /\ calls[1].unit = 1 /\ IsSseUnit(0) /\ desc.m_idxGenReg = 1

----------------------------------------------------------------------------
(* Scatter of an eightbyte composite *)

\* the bytes of the image that a full scatter of the composite occupies
CompositeAddresses == {ByteAddress(o) : o \in CompositeBytes}

\* C4: CopyStructToRegisters with destOffset 0 stores the units in order, the
\* k-th SSE unit at the start of floating slot m_idxFloatReg + k (16-byte
\* stride), every other unit at the general-register base + m_idxGenReg*8 + the
\* sizes of the preceding non-SSE units; unit i receives the source bytes that
\* start at the sum of the sizes of units 0..i-1, and nothing else is stored.
FullScatterPlacesUnitsByKind ==
    (IsCopy /\ op.destOffset = 0 /\ op.fieldBytes = CompositeSize) =>
        /\ status = "ok"
        /\ writes = [k \in 1..Len(desc.m_eeClass) |->
                        WriteRec(k - 1, UnitAddress(k - 1), UnitSize(k - 1), SizeBefore(k - 1))]
        /\ \A o \in CompositeBytes : regs[ByteAddress(o)] = Deref(op.buf, o)
        /\ LET elsewhere == DOMAIN regs \ CompositeAddresses
           IN  \A a \in elsewhere : regs[a] = pre[a]

\* a full scatter of two SSE units, the second one a single float
FullScatterTwoSseWitness ==
    /\ IsCopy /\ op.destOffset = 0 /\ op.fieldBytes = CompositeSize /\ status = "ok"
    /\ desc.m_eeClass = <<EightByte("SSE", 8), EightByte("SSE", 4)>>
    /\ desc.m_idxFloatReg = 1

\* a full scatter of an SSE unit between general-register units' worth of bytes
FullScatterMixedWitness ==
    /\ IsCopy /\ op.destOffset = 0 /\ op.fieldBytes = CompositeSize /\ status = "ok"
    /\ desc.m_eeClass = <<EightByte("SSE", 8), EightByte("Integer", 1)>>
    /\ desc.m_idxGenReg = 1 /\ Len(writes) = 2

\* C5 as stated: every store of a scatter that fails no assertion is of exactly
\* 4 or exactly 8 bytes, whatever the unit's kind.
EveryUnitCopies4Or8 ==
    (IsCopy /\ status = "ok") => \A k \in 1..Len(writes) : writes[k].len \in {4, 8}

\* the part of unit i that a scatter at destOffset leaves out
SkippedOf(i) == IF i = op.destOffset \div 8 THEN op.destOffset % 8 ELSE 0

\* C5 amended: in a scatter that fails no assertion a store for an SSE unit is of
\* exactly 4 or 8 bytes; a store for any other unit is of the unit's size less
\* the part destOffset skips, any of 1..8 bytes for an Integer unit and, where
\* assertions are live, 8 for a reference unit.
SseUnitCopies4Or8 ==
    (IsCopy /\ status = "ok") =>
        \A k \in 1..Len(writes) :
            LET w == writes[k] IN
            IF IsSseUnit(w.unit) THEN w.len \in {4, 8}
            ELSE /\ w.len = UnitSize(w.unit) - SkippedOf(w.unit)
                 /\ w.len \in 1..8
                 /\ (checked /\ IsRefUnit(w.unit)) => w.len = 8

\* a scatter that copies one byte for an Integer unit after 8 for an SSE unit
OneByteUnitWitness ==
    /\ IsCopy /\ status = "ok" /\ checked
    /\ \E j, k \in 1..Len(writes) :
          /\ IsSseUnit(writes[j].unit) /\ writes[j].len = 8
          /\ UnitClass(writes[k].unit) = "Integer" /\ writes[k].len = 1

\* the image holds a full scatter of the composite from one of the sources
HoldsFullScatter(img) ==
    \E b \in SrcSeeds : \A o \in CompositeBytes : img[ByteAddress(o)] = Deref(b, o)

\* the composite bytes below destOffset are where the image before had them
BytesBelowOffsetKept ==
    \A o \in CompositeBytes : o < op.destOffset => regs[ByteAddress(o)] = pre[ByteAddress(o)]

\* C6 as stated: for every layout and every nonzero destOffset a scatter leaves
\* every image byte that holds a composite byte below destOffset as a prior full
\* scatter wrote it.
PartialScatterKeepsBytesBelowOffset ==
    (IsCopy /\ op.destOffset # 0 /\ HoldsFullScatter(pre)) => BytesBelowOffsetKept

\* no unit that holds a composite byte below destOffset is an SSE unit
NoSseBelowOffset == \A i \in Units : SizeBefore(i) < op.destOffset => ~IsSseUnit(i)

\* C6 amended: the bytes below destOffset are kept when no unit that holds one of
\* them is an SSE unit (the layout of Nullable<T>, whose leading bytes are the
\* hasValue flag).
PartialScatterKeepsIntegerBytesBelowOffset ==
    (IsCopy /\ op.destOffset # 0 /\ HoldsFullScatter(pre) /\ NoSseBelowOffset)
        => BytesBelowOffsetKept

\* a scatter into the middle of a leading Integer unit, followed by an SSE unit,
\* over the image a full scatter left
PartialScatterWitness ==
    /\ IsCopy /\ op.destOffset = 4 /\ HoldsFullScatter(pre) /\ status = "ok"
    /\ desc.m_eeClass = <<EightByte("Integer", 8), EightByte("SSE", 8)>>
    /\ Len(writes) = 2 /\ regs # pre

\* C7: after ZeroStructInRegisters, whatever earlier scatters left in the image,
\* every byte of every unit of the composite reads zero, the image is the one a
\* scatter of an all-zero source with destOffset 0 gives, no other byte has
\* changed, and a second zero-fill changes nothing.
ZeroFillZeroesEveryUnit ==
    (IsZero /\ op.fieldBytes = CompositeSize) =>
        /\ status = "ok"
        /\ \A o \in CompositeBytes : regs[ByteAddress(o)] = 0
        /\ LET elsewhere == DOMAIN regs \ CompositeAddresses
           IN  \A a \in elsewhere : regs[a] = pre[a]
        /\ regs = CopyStructToRegistersSysV(pre, ZerosBuf, op.fieldBytes, 0).mem
        /\ ZeroStructInRegistersSysV(regs, op.fieldBytes).mem = regs

\* a zero-fill over an image into which an earlier scatter put nonzero bytes
ZeroFillWitness ==
    /\ IsZero /\ op.fieldBytes = CompositeSize /\ status = "ok"
    /\ Len(desc.m_eeClass) = 2
    /\ \E o \in CompositeBytes : pre[ByteAddress(o)] \notin {0, 238}
    /\ \E a \in DOMAIN regs : a \notin CompositeAddresses /\ regs[a] # 238

----------------------------------------------------------------------------
(* Scatter under the hardware floating-point convention *)

\* n bytes of image img starting at addr
Bytes(img, addr, n) == [k \in 1..n |-> img[addr + k - 1]]

IsSingleFloat == op.name = "CopySingleFloatToRegister"
IsFpCopy ==
    /\ target \in {"TARGET_LOONGARCH64", "TARGET_RISCV64"}
    /\ op.name = "CopyStructToRegisters" /\ status = "ok" /\ ~desc.isNull

\* floating register m_idxFloatReg + k and integer register m_idxGenReg
FloatSlot(k) == m_base + OffsetOfFloatArgumentRegisters + (desc.m_idxFloatReg + k) * 8
IntSlot == m_base + OffsetOfArgumentRegisters + desc.m_idxGenReg * 8

Shape == CHOOSE f \in desc.m_structFields.flags : TRUE

FieldRec(isFloat, offset, size, slot) ==
    [isFloat |-> isFloat, offset |-> offset, size |-> size, slot |-> slot]

\* the fields of the composite and the register the shape flag selects for each
ShapeFields ==
    LET info == desc.m_structFields
        f1(isFloat, slot) == FieldRec(isFloat, info.offset1st, Size1st(info), slot)
        f2(isFloat, slot) == FieldRec(isFloat, info.offset2nd, Size2nd(info), slot)
    IN  CASE Shape = "OnlyOne" -> {f1(TRUE, FloatSlot(0))}
          [] Shape = "BothFloat" -> {f1(TRUE, FloatSlot(0)), f2(TRUE, FloatSlot(1))}
          [] Shape = "FloatInt" -> {f1(TRUE, FloatSlot(0)), f2(FALSE, IntSlot)}
          [] Shape = "IntFloat" -> {f1(FALSE, IntSlot), f2(TRUE, FloatSlot(0))}

AllOnes == <<255, 255, 255, 255>>
AllZeros == <<0, 0, 0, 0>>

\* the sources that the scatters read
RefSeed == CHOOSE b \in SrcSeeds : TRUE

\* the high 32 bits that the scatter of a reference source leaves for field f
ReferenceHigh(f) == SubSeq(FloatFieldValue(RefSeed, f.offset, 2), 5, 8)

\* a single float to a destination that is not a floating register: 4 bytes stored
SingleFloatNarrow ==
    (IsSingleFloat /\ ~IsFloatArgumentRegisterOffset(m_offset)) =>
        /\ Bytes(regs, m_base + m_offset, 4) = SrcBytes(op.buf, 0, 4)
        /\ Bytes(regs, m_base + m_offset + 4, 4) = Bytes(pre, m_base + m_offset + 4, 4)
        /\ LET elsewhere == DOMAIN regs \ ((m_base + m_offset) .. (m_base + m_offset + 3))
           IN  \A a \in elsewhere : regs[a] = pre[a]

\* a single float to a floating register: the bits of the float below 0xffffffff
SingleFloatBoxed ==
    (IsSingleFloat /\ IsFloatArgumentRegisterOffset(m_offset)) =>
        /\ Bytes(regs, m_base + m_offset, 4) = SrcBytes(op.buf, 0, 4)
        /\ Bytes(regs, m_base + m_offset + 4, 4) = AllOnes

\* C8 as stated: a 4-byte float scattered to a floating register is stored as 64
\* bits, the low 32 the bits of the source and the high 32 one pattern that does
\* not depend on the source (the one any other source gets), on every target;
\* to another destination only the low 4 bytes are stored.
FloatHighBitsFixedOnEveryTarget ==
    /\ SingleFloatBoxed
    /\ SingleFloatNarrow
    /\ IsFpCopy =>
          \A f \in ShapeFields :
              (f.isFloat /\ f.size = 4) =>
                  /\ Bytes(regs, f.slot, 4) = SrcBytes(op.buf, f.offset, 4)
                  /\ Bytes(regs, f.slot + 4, 4) = ReferenceHigh(f)

\* C8 amended: the high 32 bits are the fixed pattern 0xffffffff for
\* CopySingleFloatToRegister and for the floating fields of CopyStructToRegisters
\* on TARGET_RISCV64; on TARGET_LOONGARCH64 they are the sign extension of the
\* float, all ones for a source with the sign bit set and zero otherwise.
FloatHighBitsFixedOnRiscV ==
    /\ SingleFloatBoxed
    /\ SingleFloatNarrow
    /\ IsFpCopy =>
          \A f \in ShapeFields :
              (f.isFloat /\ f.size = 4) =>
                  /\ Bytes(regs, f.slot, 4) = SrcBytes(op.buf, f.offset, 4)
                  /\ Bytes(regs, f.slot + 4, 4) =
                        IF target = "TARGET_RISCV64" THEN AllOnes
                        ELSE IF Deref(op.buf, f.offset + 3) >= 128 THEN AllOnes
                        ELSE AllZeros

\* two 4-byte floats, the first with its sign bit set, scattered to floating
\* registers on TARGET_LOONGARCH64
FloatBoxedWitness ==
    /\ IsFpCopy /\ target = "TARGET_LOONGARCH64" /\ Shape = "BothFloat"
    /\ desc.m_structFields.sizeShift1st = 2 /\ desc.m_structFields.sizeShift2nd = 2
    /\ Deref(op.buf, 3) >= 128

----------------------------------------------------------------------------
(* Scatter of a homogeneous floating aggregate *)

IsHfaCopy == op.name = "CopyHFAStructToRegister" /\ status = "ok"

\* the 16-byte floating slot of field i
HfaSlot(i) == m_base + m_offset + 16 * i
HfaFields == 0 .. (desc.m_cFloatReg - 1)

\* the upper 8 bytes of the slot of field i are zero
UpperHalfZero(i) == Bytes(regs, HfaSlot(i) + 8, 8) = <<0, 0, 0, 0, 0, 0, 0, 0>>

\* C10 as stated: the upper 8 bytes of a field's slot are zero-filled only when
\* the field width is 16; for the widths 4 and 8 they are not zero-filled.
UpperHalfZeroedOnlyForVectors ==
    IsHfaCopy => \A i \in HfaFields : UpperHalfZero(i) <=> desc.m_hfaFieldSize = 16

\* C10 amended: the upper 8 bytes of a field's slot are zero-filled exactly when
\* the field width is 4 or 8; for the width 16 they receive bytes 8..15 of the
\* field.
UpperHalfZeroedExceptForVectors ==
    IsHfaCopy =>
        \A i \in HfaFields :
            /\ UpperHalfZero(i) <=> desc.m_hfaFieldSize \in {4, 8}
            /\ desc.m_hfaFieldSize = 16 =>
                  Bytes(regs, HfaSlot(i) + 8, 8) = SrcBytes(op.buf, 16 * i + 8, 8)

\* an aggregate of two floats scattered over slots whose upper halves were not zero
UpperHalfWitness ==
    /\ IsHfaCopy /\ desc.m_hfaFieldSize = 4 /\ desc.m_cFloatReg = 2
    /\ \A i \in HfaFields : Bytes(pre, HfaSlot(i) + 8, 8) # <<0, 0, 0, 0, 0, 0, 0, 0>>

----------------------------------------------------------------------------
(* Scatter, then gather *)

\* The gather of a sub-field reads the bytes of the sub-field back from the place
\* the layout assigns to it: an eightbyte unit from its register or slot, a field
\* of an aggregate from the start of its 16-byte slot, a field of a hardware
\* floating-point composite from the low bytes of its register.
GatherUnit(img, i) == Bytes(img, UnitAddress(i), UnitSize(i))
GatherHfaField(img, i) == Bytes(img, HfaSlot(i), desc.m_hfaFieldSize)
GatherFpField(img, f) == Bytes(img, f.slot, f.size)

IsFullSysVCopy ==
    /\ target = "UNIX_AMD64_ABI" /\ IsCopy /\ op.destOffset = 0 /\ status = "ok"

\* C11: for each layout shape, after a scatter of the composite that ran to its
\* end, the gather of every sub-field from the place the layout assigns to it
\* gives the source bytes of the sub-field, reference units included (no
\* operation of the collector lies between the scatter and the gather).
ScatterThenGatherIsSource ==
    /\ IsFullSysVCopy =>
          \A i \in Units : GatherUnit(regs, i) = SrcBytes(op.buf, SizeBefore(i), UnitSize(i))
    /\ IsHfaCopy =>
          \A i \in HfaFields :
              GatherHfaField(regs, i)
                 = SrcBytes(op.buf, i * desc.m_hfaFieldSize, desc.m_hfaFieldSize)
    /\ IsFpCopy =>
          \A f \in ShapeFields : GatherFpField(regs, f) = SrcBytes(op.buf, f.offset, f.size)

\* an aggregate of two 16-byte vectors scattered to slots 1 and 2
ScatterThenGatherWitness ==
    /\ IsHfaCopy /\ desc.m_hfaFieldSize = 16 /\ desc.m_cFloatReg = 2
    /\ desc.m_idxFloatReg = 1 /\ regs # pre

----------------------------------------------------------------------------
(* The constructor's invariant *)

\* the constructor has run and its assertion has not failed
Accepted == op.name # "none" /\ ~(op.name = "ArgDestination" /\ status = "assert")

\* C12 as stated: every ArgDestination the constructor accepts where assertions
\* are live has a descriptor iff its offset is StructInRegsOffset, and has none
\* on a target without composites split over registers.
DescriptorPresentIffSentinel ==
    (checked /\ Accepted) =>
        /\ (~desc.isNull) <=> (m_offset = StructInRegsOffset)
        /\ target = "TARGET_X86" => desc.isNull

\* C12 amended: where assertions are live, an accepted ArgDestination of
\* UNIX_AMD64_ABI whose offset is StructInRegsOffset has a descriptor (one whose
\* offset is another may have one too); one of TARGET_ARM64, TARGET_LOONGARCH64
\* or TARGET_RISCV64 is not constrained; one of any other target has no
\* descriptor.
SentinelImpliesDescriptor ==
    (checked /\ Accepted) =>
        /\ (target = "UNIX_AMD64_ABI" /\ m_offset = StructInRegsOffset) => ~desc.isNull
        /\ target = "TARGET_X86" => desc.isNull

\* an accepted ArgDestination of UNIX_AMD64_ABI with a descriptor and the offset
\* of an argument register, on which an operation has run
DescriptorWithoutSentinelWitness ==
    /\ checked /\ Accepted /\ target = "UNIX_AMD64_ABI"
    /\ ~desc.isNull /\ m_offset # StructInRegsOffset /\ ncalls > 0

----------------------------------------------------------------------------
(* Operations on an ArgDestination without a descriptor *)

CompositeOnlyOperations ==
    {"CopyStructToRegisters", "ZeroStructInRegisters", "ReportPointersFromStructInRegisters",
     "GetStructGenRegDestinationAddress", "GetStructFloatRegDestinationAddress",
     "CopyHFAStructToRegister"}

\* C13: where assertions are live, every operation that needs the descriptor,
\* run on an ArgDestination that has none, fails an assertion before it reads
\* the descriptor and before it stores a byte or calls back.
OperationWithoutDescriptorAsserts ==
    (checked /\ desc.isNull /\ op.name \in CompositeOnlyOperations) =>
        /\ status = "assert"
        /\ regs = pre /\ writes = <<>> /\ calls = <<>>

----------------------------------------------------------------------------
(* The size assertions *)

IsSizeChecked ==
    /\ checked /\ target = "UNIX_AMD64_ABI" /\ ~desc.isNull /\ IsStructPassedInRegs
    /\ (IsCopy /\ op.destOffset = 0) \/ IsReport

\* the units at which fieldBytes has run out: less of it is left than the unit's size
ShortUnits == {i \in Units : op.fieldBytes - SizeBefore(i) < UnitSize(i)}

\* the number of units an operation handles before an assertion on the size stops it
UnitsBeforeSizeAssertion ==
    IF ShortUnits = {} THEN Len(desc.m_eeClass)
    ELSE CHOOSE i \in ShortUnits : \A j \in ShortUnits : i <= j

\* C14: where assertions are live, CopyStructToRegisters with destOffset 0 and
\* ReportPointersFromStructInRegisters fail an assertion whenever the sizes of
\* the units do not sum to fieldBytes: at the first unit larger than what is
\* left of fieldBytes (remainingBytes >= eightByteSize), or after the last unit
\* when fieldBytes is larger than the sum (remainingBytes == 0); and they run
\* to their end when the sizes sum to fieldBytes.
SizeMismatchAsserts ==
    IsSizeChecked =>
        IF op.fieldBytes = CompositeSize THEN status = "ok"
        ELSE /\ status = "assert"
             /\ IsCopy => Len(writes) = UnitsBeforeSizeAssertion
             /\ IsReport =>
                   Len(calls) = Cardinality({i \in RefUnits : i < UnitsBeforeSizeAssertion})

\* a report of two references with a fieldBytes one larger than their sizes,
\* stopped after both callbacks
SizeMismatchWitness ==
    /\ IsSizeChecked /\ IsReport /\ op.fieldBytes = CompositeSize + 1
    /\ Len(calls) = 2 /\ status = "assert"

----------------------------------------------------------------------------
(* The slots of a homogeneous floating aggregate *)

\* the bytes of the slots of the aggregate
HfaSlotAddresses == HfaSlot(0) .. (HfaSlot(desc.m_cFloatReg) - 1)

\* the source offset whose byte the scatter leaves at byte k of the slot of field
\* i, NoSource where it leaves zero
HfaSourceOf(i, k) ==
    IF k < desc.m_hfaFieldSize THEN i * desc.m_hfaFieldSize + k ELSE NoSource

\* C16: CopyHFAStructToRegister stores to exactly the m_cFloatReg consecutive
\* 16-byte slots that start at m_base + m_offset, in order, two 8-byte stores a
\* slot; slot i holds the field at src + i*m_hfaFieldSize in its first
\* m_hfaFieldSize bytes and zero in the others (bytes 4..7 of a 4-byte field are
\* zero); the bytes stored are those of the first m_cFloatReg*m_hfaFieldSize
\* bytes of the source and no others; no byte outside the slots changes; all
\* that whatever fieldBytes is.
HfaFillsExactlyItsSlots ==
    IsHfaCopy =>
        /\ HfaSlot(0) = m_base + m_offset
        /\ Len(writes) = 2 * desc.m_cFloatReg
        /\ \A k \in 1..Len(writes) :
              /\ writes[k].addr = HfaSlot(0) + 8 * (k - 1)
              /\ writes[k].len = 8
              /\ writes[k].unit = (k - 1) \div 2
        /\ \A i \in HfaFields : \A k \in 0..15 :
              regs[HfaSlot(i) + k] =
                 IF HfaSourceOf(i, k) = NoSource THEN 0 ELSE Deref(op.buf, HfaSourceOf(i, k))
        /\ {HfaSourceOf(i, k) : i \in HfaFields, k \in 0..15} \ {NoSource}
              = 0 .. (desc.m_cFloatReg * desc.m_hfaFieldSize - 1)
        /\ LET elsewhere == DOMAIN regs \ HfaSlotAddresses
           IN  \A a \in elsewhere : regs[a] = pre[a]

\* an aggregate of the largest number of floats, scattered with a fieldBytes
\* that is not its size
HfaSlotsWitness ==
    /\ IsHfaCopy /\ desc.m_hfaFieldSize = 4 /\ desc.m_cFloatReg = MaxHfaFields
    /\ op.fieldBytes # desc.m_cFloatReg * desc.m_hfaFieldSize
    /\ desc.m_idxFloatReg = 1

----------------------------------------------------------------------------
(* A scatter at a destination offset against the full scatter *)

IsCompleteSysVCopy ==
    /\ target = "UNIX_AMD64_ABI" /\ IsCopy /\ status = "ok" /\ ~desc.isNull
    /\ op.fieldBytes = CompositeSize - op.destOffset

\* the first composite byte of unit i that a scatter at destOffset writes
FirstWritten(i) == IF SizeBefore(i) < op.destOffset THEN op.destOffset ELSE SizeBefore(i)

\* the stores of a scatter that puts every unit it does not skip where the full
\* scatter puts the unit's bytes from destOffset on
StoresAtFullScatterPlaces ==
    LET first == op.destOffset \div 8
    IN  [k \in 1..(Len(desc.m_eeClass) - first) |->
            LET i == first + k - 1
            IN  WriteRec(i, ByteAddress(FirstWritten(i)),
                         SizeBefore(i) + UnitSize(i) - FirstWritten(i),
                         FirstWritten(i) - op.destOffset)]

PlacedAsFullScatter ==
    /\ writes = StoresAtFullScatterPlaces
    /\ \A o \in CompositeBytes :
          o >= op.destOffset => regs[ByteAddress(o)] = Deref(op.buf, o - op.destOffset)

\* C17 as stated: for every layout and every destOffset within the composite a
\* scatter writes each unit it does not skip where the full scatter places the
\* unit's bytes from destOffset on: a skipped SSE unit advances the floating
\* slot by 16, a skipped unit of another kind advances the general-register
\* cursor by its size, a partly skipped SSE unit is written at destOffset mod 8
\* within its slot.
PartialScatterPlacesAsFullScatter == IsCompleteSysVCopy => PlacedAsFullScatter

\* C17 amended: that holds when no unit that holds a composite byte below
\* destOffset is an SSE unit.
PartialScatterPlacesAsFullScatterAfterIntegerUnits ==
    (IsCompleteSysVCopy /\ NoSseBelowOffset) => PlacedAsFullScatter

\* a scatter into the middle of a leading Integer unit that a reference follows
PartialPlacementWitness ==
    /\ IsCompleteSysVCopy /\ op.destOffset = 2 /\ desc.m_idxGenReg = 1
    /\ desc.m_eeClass = <<EightByte("Integer", 8), EightByte("IntegerByRef", 8)>>
    /\ Len(writes) = 2

----------------------------------------------------------------------------
(* Scatter and root reporting on one ArgDestination *)

\* the full scatter of source b over image img
FullScatterOf(img, b) == CopyStructToRegistersSysV(img, b, CompositeSize, 0)

\* the store that a full scatter makes for unit i
StoreOfUnit(scatter, i) ==
    CHOOSE k \in 1..Len(scatter.writes) : scatter.writes[k].unit = i

\* C18: on one ArgDestination, the address ReportPointersFromStructInRegisters
\* gives the callback for a reference unit is the address at which
\* CopyStructToRegisters with destOffset 0 stores the 8 bytes of that unit, so
\* that what the callback reads there after a scatter is the reference of the
\* source: in the image a scatter of any source over the reported image gives,
\* and in the reported image itself when a full scatter left it.
ReportReadsWhatScatterStored ==
    (IsReport /\ op.fieldBytes = CompositeSize) =>
        \A k \in 1..Len(calls) :
            LET i == calls[k].unit
                a == calls[k].addr
            IN  /\ \A b \in SrcSeeds :
                      LET scatter == FullScatterOf(pre, b)
                          w == scatter.writes[StoreOfUnit(scatter, i)]
                      IN  /\ w.addr = a /\ w.len = 8
                          /\ Bytes(scatter.mem, a, 8) = SrcBytes(b, SizeBefore(i), 8)
                /\ \A b \in SrcSeeds :
                      (\A o \in CompositeBytes : pre[ByteAddress(o)] = Deref(b, o))
                         => Bytes(pre, a, 8) = SrcBytes(b, SizeBefore(i), 8)

\* a report, right after a full scatter, of a reference unit that follows an SSE unit
ReportAfterScatterWitness ==
    /\ IsReport /\ op.fieldBytes = CompositeSize /\ HoldsFullScatter(pre)
    /\ Len(calls) = 1 /\ calls[1].unit = 1 /\ IsSseUnit(0) /\ op.moves

----------------------------------------------------------------------------
(* Serialization of event arguments *)

\* the size of the serialized form of a value of each type
TypeBytes(type) ==
    IF type = "uint8_t" THEN 1
    ELSE IF type = "uint16_t" THEN 2
    ELSE IF type = "uint64_t" THEN 8
    ELSE 4

RECURSIVE BytesBefore(_)
\* the sum of the sizes of arguments 1..j-1 of the last call
BytesBefore(j) ==
    IF j = 1 THEN 0 ELSE BytesBefore(j - 1) + TypeBytes(event.args[j - 1].type)

IsSerialized == event.args # <<>>

\* C19: a call of gc_event::Serialize, or of the Serialize of one value, leaves
\* *buf advanced from its initial value by gc_event::SerializedSize of the
\* arguments, which is the sum of the sizes of the arguments; argument j lies
\* in the bytes that follow those of arguments 1..j-1, an integer least
\* significant byte first and a float as it lies in memory; no byte outside
\* the bytes between the initial and the final *buf changes.
SerializeFillsConsecutiveRanges ==
    IsSerialized =>
        /\ event.size = BytesBefore(Len(event.args) + 1)
        /\ event.buf = event.start + event.size
        /\ \A j \in 1..Len(event.args) :
              LET arg == event.args[j]
                  written == [k \in 1..TypeBytes(arg.type) |->
                                 event.mem[event.start + BytesBefore(j) + k - 1]]
              IN  written = IF arg.type = "float" /\ event.bigEndian
                            THEN Reverse(arg.value) ELSE arg.value
        /\ \A a \in DOMAIN event.mem :
              (a < event.start \/ a >= event.buf) => event.mem[a] = event.before[a]

\* three arguments of three sizes serialized from a nonzero cursor on a
\* big-endian host
SerializeWitness ==
    /\ IsSerialized /\ event.bigEndian /\ event.start = 3 /\ Len(event.args) = 3
    /\ event.args[1].type = "uint8_t" /\ event.args[2].type = "uint64_t"
    /\ event.args[3].type = "float"

----------------------------------------------------------------------------
(* The calling thread and the collector.  A scatter is the sequence of its    *)
(* stores, one step each; the collector is another thread that asks for a     *)
(* collection at any moment.  How the collector stops the calling thread is   *)
(* not part of argdestination.h: a thread in cooperative mode runs until it   *)
(* reaches a safe point, and the reporting of roots starts only then.         *)

\* the stores of an operation with outcome r, each with the bytes it stores
PendingStores(r) ==
    [k \in 1..Len(r.writes) |->
        [w |-> r.writes[k],
         bytes |-> IF r.writes[k].unit = NoSource THEN TrashBytes
                   ELSE Bytes(r.mem, r.writes[k].addr, r.writes[k].len)]]

InFlight == thread.pending # <<>>

\* the calling thread is not stopped for a collection
MutatorRuns == status = "ok" /\ thread.gc # "running"

\* a plausible slip: the zero-filled array is allocated, and allocation may collect
TriggersCollectionInZeroFill(name) == name = "ZeroStructInRegisters"

\* Whether the body of an operation can start a collection itself: none of the
\* scatters allocates or calls into the runtime, and the eightbyte ones declare
\* it (STATIC_CONTRACT_GC_NOTRIGGER).
TriggersCollection(name) == FALSE

\* a plausible slip: the collector does not wait for the safe point
AtSafePointAlways == TRUE

\* the calling thread is at a safe point: between two operations
AtSafePoint == ~InFlight

\* the calling thread enters an operation with outcome r
Begin(name, buf, fieldBytes, destOffset, r) ==
    /\ op' = OpRec(name, buf, fieldBytes, destOffset, FALSE)
    /\ pre' = regs
    /\ calls' = <<>>
    /\ ncalls' = ncalls + 1
    /\ IF r.status = "ok"
       THEN /\ regs' = regs
            /\ writes' = <<>>
            /\ status' = "ok"
            /\ thread' = [thread EXCEPT !.pending = PendingStores(r)]
       ELSE /\ regs' = r.mem
            /\ writes' = r.writes
            /\ status' \in Resolve(r.status)
            /\ thread' = thread
    /\ UNCHANGED <<target, checked, m_base, m_offset, desc, event>>

BeginCopyStructToRegisters ==
    /\ Running /\ MutatorRuns /\ ~InFlight
    /\ target = "UNIX_AMD64_ABI"
    /\ \E buf \in SrcSeeds, destOffset \in DestOffsets :
         /\ destOffset < DeclaredSize
         /\ Begin("CopyStructToRegisters", buf, DeclaredSize - destOffset, destOffset,
                  CopyStructToRegistersSysV(regs, buf, DeclaredSize - destOffset, destOffset))

BeginZeroStructInRegisters ==
    /\ Running /\ MutatorRuns /\ ~InFlight
    /\ target = "UNIX_AMD64_ABI"
    /\ Begin("ZeroStructInRegisters", ZerosBuf, DeclaredSize, 0,
             ZeroStructInRegistersSysV(regs, DeclaredSize))

BeginCopyStructToRegistersFp ==
    /\ Running /\ MutatorRuns /\ ~InFlight
    /\ target \in {"TARGET_LOONGARCH64", "TARGET_RISCV64"}
    /\ \E buf \in SrcSeeds :
         LET fieldBytes == IF desc.isNull THEN 8 ELSE FpStructSize(desc.m_structFields)
         IN  Begin("CopyStructToRegisters", buf, fieldBytes, 0,
                   CopyStructToRegistersFpStruct(regs, buf, fieldBytes, 0))

BeginCopySingleFloatToRegister ==
    /\ Running /\ MutatorRuns /\ ~InFlight
    /\ target = "TARGET_RISCV64"
    /\ desc.isNull
    /\ \E buf \in SrcSeeds :
         Begin("CopySingleFloatToRegister", buf, 4, 0, CopySingleFloatToRegisterRiscV(regs, buf))

BeginCopyHFAStructToRegister ==
    /\ Running /\ MutatorRuns /\ ~InFlight
    /\ target = "TARGET_ARM64"
    /\ \E buf \in SrcSeeds :
         LET fieldBytes == desc.m_cFloatReg * desc.m_hfaFieldSize
         IN  Begin("CopyHFAStructToRegister", buf, fieldBytes, 0,
                   CopyHFAStructToRegisterArm64(regs, buf, fieldBytes))

\* the next store of the scatter the calling thread is in
StoreNext ==
    /\ MutatorRuns /\ InFlight
    /\ LET next == Head(thread.pending)
       IN  /\ regs' = Store(regs, next.w.addr, next.bytes)
           /\ writes' = Append(writes, next.w)
    /\ thread' = [thread EXCEPT !.pending = Tail(thread.pending),
                                !.gc = IF TriggersCollection(op.name) THEN "running" ELSE @]
    /\ UNCHANGED <<target, checked, m_base, m_offset, desc, pre, op, status, calls, ncalls,
                   event>>

\* the collector asks for a collection
RequestCollection ==
    /\ Running
    /\ thread.gc = "idle"
    /\ thread' = [thread EXCEPT !.gc = "requested", !.waited = InFlight]
    /\ ncalls' = ncalls + 1
    /\ UNCHANGED <<target, checked, m_base, m_offset, desc, regs, pre, op, status, writes,
                   calls, event>>

\* the calling thread stops at a safe point and the collection starts
StartCollection ==
    /\ status = "ok"
    /\ thread.gc = "requested"
    /\ AtSafePoint
    /\ thread' = [thread EXCEPT !.gc = "running"]
    /\ UNCHANGED <<target, checked, m_base, m_offset, desc, regs, pre, op, status, writes,
                   calls, ncalls, event>>

\* the collector reports the roots of the frame, with
\* ReportPointersFromStructInRegisters where the target has it, and lets the
\* calling thread go on
ReportRoots ==
    /\ status = "ok"
    /\ thread.gc = "running"
    /\ IF target = "UNIX_AMD64_ABI"
       THEN \E moves \in BOOLEAN :
               LET r == ReportPointersFromStructInRegistersSysV(regs, DeclaredSize, moves)
               IN  /\ op' = OpRec("ReportPointersFromStructInRegisters", 0, DeclaredSize, 0,
                                  moves)
                   /\ pre' = regs
                   /\ regs' = r.mem
                   /\ writes' = <<>>
                   /\ calls' = r.calls
                   /\ status' \in Resolve(r.status)
       ELSE UNCHANGED <<regs, pre, op, writes, calls, status>>
    /\ thread' = [thread EXCEPT !.gc = "idle"]
    /\ UNCHANGED <<target, checked, m_base, m_offset, desc, ncalls, event>>

NextGc ==
    \/ BeginCopyStructToRegisters
    \/ BeginZeroStructInRegisters
    \/ BeginCopyStructToRegistersFp
    \/ BeginCopySingleFloatToRegister
    \/ BeginCopyHFAStructToRegister
    \/ StoreNext
    \/ RequestCollection
    \/ StartCollection
    \/ ReportRoots

\* the calling thread and the collector on one ArgDestination of any build
SpecGc == Init /\ [][NextGc]_vars

====
